---- MODULE Spec2Model ----
(***************************************************************************)
(* State-machine model of src/monitor.py: one monitoring pass (main) reads *)
(* the persisted snapshot, lists the organization's repositories, notifies *)
(* new repositories, then for each repository fetches releases and tags,   *)
(* notifies the new ones, merges them into the snapshot, and finally saves *)
(* the snapshot through a temporary file.                                  *)
(***************************************************************************)
EXTENDS Naturals, Sequences, FiniteSets, TLC

VARIABLES
    fs,       \* the file system: path -> [exists, text]
    pc,       \* position of the monitor process
    state,    \* main's local `state` (the in-memory snapshot)
    repos,    \* main's local `repos` (the listing of this pass)
    idx,      \* index in `repos` of the next repository of the for loop
    sent,     \* the calls of send_feishu_post made in this pass, in order
    fetched,  \* what fetch_releases / fetch_tags returned in this pass, per iteration
    file0,    \* the persisted snapshot file as it was when this pass loaded it
    commits,  \* number of os.replace calls completed in this pass
    notified  \* history: the items the earlier passes called send_feishu_post for

vars == <<fs, pc, state, repos, idx, sent, fetched, file0, commits, notified>>

----------------------------------------------------------------------------
(* Bounds of the model                                                     *)

MaxRepos == 3
MaxReleases == 2
MaxTags == 2

(* Sequences of length <= n over U in which no two elements share a key:   *)
(* the hosting API returns each repository name, release id and tag name   *)
(* at most once per listing.                                               *)
DistinctByName(U, n) ==
    UNION { { s \in [1..k -> U] :
                \A i \in 1..k : \A j \in 1..k : i # j => s[i].name # s[j].name }
            : k \in 0..n }

DistinctById(U, n) ==
    UNION { { s \in [1..k -> U] :
                \A i \in 1..k : \A j \in 1..k : i # j => s[i].id # s[j].id }
            : k \in 0..n }

(* The single-repository world: one repository "x" (seen under two API     *)
(* ids), two release ids, releases with or without a tag_name, two tags.   *)
RepoRecs == { [name |-> "x", id |-> i, html_url |-> "u"] : i \in {1, 2} }
ReleaseRecs == { [id |-> i, tag_name |-> t, body |-> "notes"] : i \in {1, 2}, t \in {"", "v1"} }
TagRecs == { [name |-> n, commit |-> [sha |-> "c1", url |-> "cu"]] : n \in {"v1", "v2"} }

Listings == DistinctByName(RepoRecs, MaxRepos)
ReleaseLists == DistinctById(ReleaseRecs, MaxReleases)
TagLists == DistinctByName(TagRecs, MaxTags)

(* The organization world: three repositories, listed in the API's order,  *)
(* at most one release each and no tags.                                   *)
OrgRepoRecs == { [name |-> "A", id |-> 1, html_url |-> "u"],
                 [name |-> "B", id |-> 2, html_url |-> "u"],
                 [name |-> "C", id |-> 3, html_url |-> "u"] }
OrgListings == { s \in DistinctByName(OrgRepoRecs, MaxRepos) :
                   \A i \in 1..Len(s) : \A j \in 1..Len(s) : i < j => s[i].id < s[j].id }
OrgReleaseLists == DistinctById({ [id |-> 1, tag_name |-> "v1", body |-> "notes"] }, MaxReleases)
OrgTagLists == DistinctByName({}, MaxTags)

(* The small world of the save path: one repository, one release, one tag. *)
SaveListings == DistinctByName({ [name |-> "x", id |-> 1, html_url |-> "u"] }, MaxRepos)
SaveReleaseLists == DistinctById({ [id |-> 1, tag_name |-> "v1", body |-> "notes"] }, MaxReleases)
SaveTagLists == DistinctByName({ [name |-> "v2", commit |-> [sha |-> "c1", url |-> "cu"]] }, MaxTags)

(* The world of repository names: "a" (seen under two API ids) and "b",    *)
(* listed in any order, without releases or tags.                          *)
NameRepoRecs == { [name |-> "a", id |-> 1, html_url |-> "u"],
                  [name |-> "a", id |-> 2, html_url |-> "u"],
                  [name |-> "b", id |-> 3, html_url |-> "u"] }
NameListings == DistinctByName(NameRepoRecs, MaxRepos)
NoReleases == DistinctById({}, MaxReleases)
NoTags == DistinctByName({}, MaxTags)

(* The world of one pass over two repositories "a" and "b" in either       *)
(* order, each with up to two releases and two tags in any order.          *)
OrderRepoRecs == { [name |-> "a", id |-> 1, html_url |-> "u"],
                   [name |-> "b", id |-> 2, html_url |-> "u"] }
OrderReleaseRecs == { [id |-> 1, tag_name |-> "v1", body |-> "notes"],
                      [id |-> 2, tag_name |-> "", body |-> "notes"] }
OrderListings == DistinctByName(OrderRepoRecs, MaxRepos)
OrderReleaseLists == DistinctById(OrderReleaseRecs, MaxReleases)

(* The world of malformed records: the API answers with objects that lack  *)
(* a field main reads (name or id of a repository, id or tag_name of a     *)
(* release, name or commit of a tag), next to well-formed ones.            *)
AtMostTwo(U) == { <<>> } \cup { <<a>> : a \in U } \cup { p \in U \X U : p[1] # p[2] }

MalRepoRecs == { [name |-> "x", id |-> 1, html_url |-> "u"],
                 [id |-> 2, html_url |-> "u"],
                 [name |-> "y", html_url |-> "u"] }
MalReleaseRecs == { [id |-> 1, tag_name |-> "v1", body |-> "notes"],
                    [id |-> 2, body |-> "notes"],
                    [tag_name |-> "v1", body |-> "notes"] }
MalTagRecs == { [name |-> "v2", commit |-> [sha |-> "c1", url |-> "cu"]],
                [name |-> "v3"],
                [commit |-> [sha |-> "c1", url |-> "cu"]] }

MalListings == AtMostTwo(MalRepoRecs)
MalReleaseLists == AtMostTwo(MalReleaseRecs)
MalTagLists == AtMostTwo(MalTagRecs)

----------------------------------------------------------------------------
(* Data helpers                                                            *)

Range(s) == { s[i] : i \in DOMAIN s }

(* dict.get(k, d) *)
Get(m, k, d) == IF k \in DOMAIN m THEN m[k] ELSE d

(* m[k] = v on a dict *)
SetKey(m, k, v) == [n \in (DOMAIN m) \cup {k} |-> IF n = k THEN v ELSE m[n]]

EmptyDict == [n \in {} |-> <<>>]

(* Every record of the list has the key: no r[k] of a comprehension over   *)
(* the list raises KeyError.                                               *)
AllHave(rs, k) == \A i \in DOMAIN rs : k \in DOMAIN rs[i]

----------------------------------------------------------------------------
(* Snapshot store                                                          *)

STATE_FILE == "/tmp/deepseek_monitor_state.json"

(* Mutant: the snapshot is written in place *)
tmp_in_place == STATE_FILE

tmp == "/tmp/deepseek_monitor_state.json.tmp"

NoFile == [exists |-> FALSE, text |-> <<>>]

DefaultState == [repos |-> <<>>, releases |-> EmptyDict, tags |-> EmptyDict]

(* Mutant: repositories without releases or tags are left out of the text *)
json_dump_drops_empty(st) ==
    <<"{", st.repos,
      [n \in { k \in DOMAIN st.releases : st.releases[k] # <<>> } |-> st.releases[n]],
      [n \in { k \in DOMAIN st.tags : st.tags[k] # <<>> } |-> st.tags[n]],
      "}">>

(* json.dump: the text of a snapshot, as the tokens written in order; a    *)
(* write that stops early leaves a strict prefix of them.                  *)
json_dump(st) == <<"{", st.repos, st.releases, st.tags, "}">>

DumpLen == Len(json_dump(DefaultState))

(* json.load succeeds on a complete text only *)
json_parses(text) == Len(text) = DumpLen

json_load(text) == [repos |-> text[2], releases |-> text[3], tags |-> text[4]]

load_state(file) ==
    IF file.exists /\ json_parses(file.text)
    THEN json_load(file.text)
    ELSE DefaultState

----------------------------------------------------------------------------
(* Notifier                                                                *)

(* One call of send_feishu_post: the exception of a failed delivery is     *)
(* caught inside, so the caller only ever sees a return.  `ok` records     *)
(* whether the webhook accepted the message.                               *)
send_feishu_post(kind, repo_name, id, name, ok) ==
    [kind |-> kind, repo |-> repo_name, id |-> id, name |-> name, ok |-> ok]

----------------------------------------------------------------------------
(* Change detector                                                         *)

(* Mutant: repositories are compared by id *)
detect_new_repos_by_id(current_repos, st) ==
    LET known_repo_ids == { r.id : r \in Range(st.repos) }
    IN  SelectSeq(current_repos, LAMBDA r : r.id \notin known_repo_ids)

detect_new_repos(current_repos, st) ==
    LET known_repo_names == { r.name : r \in Range(st.repos) }
    IN  SelectSeq(current_repos, LAMBDA r : r.name \notin known_repo_names)

(* Mutant: the new releases are returned last first *)
detect_new_releases_reversed(repo_name, current_releases, st) ==
    LET known_releases == Get(st.releases, repo_name, <<>>)
        known_ids == { r.id : r \in Range(known_releases) }
        new_releases == SelectSeq(current_releases, LAMBDA r : r.id \notin known_ids)
    IN  [i \in 1..Len(new_releases) |-> new_releases[Len(new_releases) + 1 - i]]

detect_new_releases(repo_name, current_releases, st) ==
    LET known_releases == Get(st.releases, repo_name, <<>>)
        known_ids == { r.id : r \in Range(known_releases) }
    IN  SelectSeq(current_releases, LAMBDA r : r.id \notin known_ids)

(* Mutant: every fetched tag counts as new *)
detect_all_tags(repo_name, current_tags, st) == current_tags

detect_new_tags(repo_name, current_tags, st) ==
    LET known_tags == Get(st.tags, repo_name, <<>>)
        known_tag_names == { t.name : t \in Range(known_tags) }
    IN  SelectSeq(current_tags, LAMBDA t : t.name \notin known_tag_names)

(* Mutant: no tag is taken as covered by a release *)
no_notified_tag_names(repo_name, new_releases, st) == {}

(* The names a tag notification is suppressed for; `st` is main's state at *)
(* that line, i.e. after state["releases"][repo_name] was overwritten.     *)
notified_tag_names(repo_name, new_releases, st) ==
    LET release_tag_names_in_state ==
            { r.tag_name : r \in { q \in Range(Get(st.releases, repo_name, <<>>)) : q.tag_name # "" } }
        release_tag_names_in_run ==
            { r.tag_name : r \in { q \in Range(new_releases) : Get(q, "tag_name", "") # "" } }
    IN  release_tag_names_in_state \cup release_tag_names_in_run

----------------------------------------------------------------------------
(* Reconciler: the snapshot updates of main                                *)

repo_summary(r) == [name |-> r.name, id |-> r.id]
release_summary(r) == [id |-> r.id, tag_name |-> Get(r, "tag_name", "")]
tag_summary(t) == [name |-> t.name, commit |-> Get(Get(t, "commit", EmptyDict), "sha", "")]

repo_summaries(rs) == [i \in DOMAIN rs |-> repo_summary(rs[i])]
release_summaries(rs) == [i \in DOMAIN rs |-> release_summary(rs[i])]
tag_summaries(ts) == [i \in DOMAIN ts |-> tag_summary(ts[i])]

(* Mutant: only the newly detected repositories are recorded *)
update_repos_new_only(st, current_repos) ==
    [st EXCEPT !.repos = repo_summaries(detect_new_repos(current_repos, st))]

(* Mutant: the entries of repositories that are no longer listed are dropped *)
update_repos_prunes(st, current_repos) ==
    LET listed == { r.name : r \in Range(current_repos) }
    IN  [repos |-> repo_summaries(current_repos),
         releases |-> [n \in (DOMAIN st.releases) \cap listed |-> st.releases[n]],
         tags |-> [n \in (DOMAIN st.tags) \cap listed |-> st.tags[n]]]

update_repos(st, current_repos) ==
    [st EXCEPT !.repos = repo_summaries(current_repos)]

(* Mutant: only the newly detected releases are recorded *)
update_releases_new_only(st, repo_name, releases) ==
    [st EXCEPT !.releases =
        SetKey(@, repo_name, release_summaries(detect_new_releases(repo_name, releases, st)))]

(* Mutant: the release entry is written only when there are releases *)
update_releases_if_any(st, repo_name, releases) ==
    IF releases = <<>> THEN st
    ELSE [st EXCEPT !.releases = SetKey(@, repo_name, release_summaries(releases))]

update_releases(st, repo_name, releases) ==
    [st EXCEPT !.releases = SetKey(@, repo_name, release_summaries(releases))]

(* Mutant: recorded tags that are absent from the fetched list are kept *)
update_tags_keeps_absent(st, repo_name, tags) ==
    [st EXCEPT !.tags = SetKey(@, repo_name,
        tag_summaries(tags) \o
        SelectSeq(Get(st.tags, repo_name, <<>>),
                  LAMBDA t : t.name \notin { q.name : q \in Range(tags) }))]

update_tags(st, repo_name, tags) ==
    [st EXCEPT !.tags = SetKey(@, repo_name, tag_summaries(tags))]

(* The tags the loop of main notifies: the new ones not covered by a release *)
tags_to_notify(repo_name, tags, new_releases, st) ==
    LET covered == notified_tag_names(repo_name, new_releases, st)
    IN  SelectSeq(detect_new_tags(repo_name, tags, st), LAMBDA t : t.name \notin covered)

(* format_repo_blocks reads repo["name"] and no id; the id of the note is   *)
(* the one of the record when it has one.                                  *)
repo_notes(new_repos, oks) ==
    [i \in 1..Len(new_repos) |->
        send_feishu_post("repo", new_repos[i].name, Get(new_repos[i], "id", 0), new_repos[i].name, oks[i])]

release_notes(repo_name, new_releases, oks) ==
    [i \in 1..Len(new_releases) |->
        send_feishu_post("release", repo_name, new_releases[i].id,
                         Get(new_releases[i], "tag_name", "unknown"), oks[i])]

tag_notes(repo_name, new_tags, oks) ==
    [i \in 1..Len(new_tags) |->
        send_feishu_post("tag", repo_name, 0, new_tags[i].name, oks[i])]

----------------------------------------------------------------------------
(* The monitor process                                                     *)

Stopped == {"idle", "aborted", "done", "failed", "crashed"}

Init ==
    /\ fs = [p \in {STATE_FILE, tmp} |-> NoFile]
    /\ pc = "idle"
    /\ state = DefaultState
    /\ repos = <<>>
    /\ idx = 1
    /\ sent = <<>>
    /\ fetched = <<>>
    /\ file0 = NoFile
    /\ commits = 0
    /\ notified = {}

(* What an earlier run can have left at STATE_FILE: nothing, a complete    *)
(* snapshot, or a text that stops early and does not parse.                *)
LeftoverSnapshot ==
    [repos |-> <<[name |-> "x", id |-> 1]>>,
     releases |-> SetKey(EmptyDict, "x", <<[id |-> 1, tag_name |-> "v1"]>>),
     tags |-> SetKey(EmptyDict, "x", <<>>)]

LeftoverFiles ==
    { NoFile } \cup
    { [exists |-> TRUE, text |-> SubSeq(json_dump(LeftoverSnapshot), 1, k)] : k \in 0..DumpLen }

InitLoad ==
    /\ \E f \in LeftoverFiles : fs = [p \in {STATE_FILE, tmp} |-> IF p = STATE_FILE THEN f ELSE NoFile]
    /\ pc = "idle"
    /\ state = DefaultState
    /\ repos = <<>>
    /\ idx = 1
    /\ sent = <<>>
    /\ fetched = <<>>
    /\ file0 = NoFile
    /\ commits = 0
    /\ notified = {}

(* Before a pass over "a" and "b": no snapshot yet, or the snapshot of a    *)
(* pass that saw "a" alone with release 2 and tag "v2".                    *)
OrderSnapshot ==
    [repos |-> <<[name |-> "a", id |-> 1]>>,
     releases |-> SetKey(EmptyDict, "a", <<[id |-> 2, tag_name |-> ""]>>),
     tags |-> SetKey(EmptyDict, "a", <<[name |-> "v2", commit |-> "c1"]>>)]

InitOrder ==
    /\ \E f \in { NoFile, [exists |-> TRUE, text |-> json_dump(OrderSnapshot)] } :
           fs = [p \in {STATE_FILE, tmp} |-> IF p = STATE_FILE THEN f ELSE NoFile]
    /\ pc = "idle"
    /\ state = DefaultState
    /\ repos = <<>>
    /\ idx = 1
    /\ sent = <<>>
    /\ fetched = <<>>
    /\ file0 = NoFile
    /\ commits = 0
    /\ notified = {}

(* What a notification is about: a repository name, a release id of a     *)
(* repository, a tag name of a repository.                                 *)
NoteKey(note) ==
    CASE note.kind = "repo" -> <<"repo", note.repo, 0, "">>
      [] note.kind = "release" -> <<"release", note.repo, note.id, "">>
      [] note.kind = "tag" -> <<"tag", note.repo, 0, note.name>>

(* A scheduled invocation of main: state = load_state() *)
Load ==
    /\ pc \in Stopped
    /\ state' = load_state(fs[STATE_FILE])
    /\ file0' = fs[STATE_FILE]
    /\ pc' = "fetch_repos"
    /\ repos' = <<>>
    /\ idx' = 1
    /\ sent' = <<>>
    /\ fetched' = <<>>
    /\ commits' = 0
    /\ UNCHANGED fs

LoadState ==
    /\ Load
    /\ UNCHANGED notified

(* The same invocation, the history keeping what the pass before sent *)
LoadStateNoting ==
    /\ Load
    /\ notified' = notified \cup { NoteKey(sent[i]) : i \in DOMAIN sent }

(* The first invocation of main *)
FirstLoadState ==
    /\ pc = "idle"
    /\ LoadState

(* Mutant: the handler of a listing failure saves the loaded state before returning *)
FetchReposFailSaves ==
    /\ pc = "fetch_repos"
    /\ pc' = "aborted"
    /\ fs' = [fs EXCEPT ![STATE_FILE] = [exists |-> TRUE, text |-> json_dump(state)]]
    /\ UNCHANGED <<state, repos, idx, sent, fetched, file0, commits, notified>>

(* fetch_repos raises: main prints and returns *)
FetchReposFail ==
    /\ pc = "fetch_repos"
    /\ pc' = "aborted"
    /\ UNCHANGED <<fs, state, repos, idx, sent, fetched, file0, commits, notified>>

FetchReposOk(listings) ==
    /\ pc = "fetch_repos"
    /\ \E l \in listings : repos' = l
    /\ pc' = "notify_repos"
    /\ UNCHANGED <<fs, state, idx, sent, fetched, file0, commits, notified>>

(* Mutant: a repository is recorded only once its notification was delivered *)
NotifyReposRecordsDelivered(outcomes) ==
    /\ pc = "notify_repos"
    /\ LET new_repos == detect_new_repos(repos, state)
       IN  \E oks \in [1..Len(new_repos) -> outcomes] :
               /\ sent' = sent \o repo_notes(new_repos, oks)
               /\ state' = [state EXCEPT !.repos =
                     repo_summaries(
                         SelectSeq(repos, LAMBDA r :
                             \A i \in 1..Len(new_repos) : new_repos[i] = r => oks[i]))]
    /\ pc' = "process"
    /\ idx' = 1
    /\ UNCHANGED <<fs, repos, fetched, file0, commits, notified>>

(* Detect and notify the new repositories, then overwrite state["repos"] *)
NotifyRepos(outcomes) ==
    /\ pc = "notify_repos"
    /\ AllHave(repos, "name") /\ AllHave(repos, "id")
    /\ LET new_repos == detect_new_repos(repos, state)
       IN  \E oks \in [1..Len(new_repos) -> outcomes] :
               sent' = sent \o repo_notes(new_repos, oks)
    /\ state' = update_repos(state, repos)
    /\ pc' = "process"
    /\ idx' = 1
    /\ UNCHANGED <<fs, repos, fetched, file0, commits, notified>>

(* A listed repository lacks "name" or "id": the KeyError is raised        *)
(* outside any try block and ends main.  Without a name it is raised by    *)
(* detect_new_repos, before any notification; without an id by the update  *)
(* of state["repos"], after the notifications.                             *)
NotifyReposRaises(outcomes) ==
    /\ pc = "notify_repos"
    /\ ~(AllHave(repos, "name") /\ AllHave(repos, "id"))
    /\ IF AllHave(repos, "name")
       THEN LET new_repos == detect_new_repos(repos, state)
            IN  \E oks \in [1..Len(new_repos) -> outcomes] :
                    sent' = sent \o repo_notes(new_repos, oks)
       ELSE sent' = sent
    /\ pc' = "failed"
    /\ UNCHANGED <<fs, state, repos, idx, fetched, file0, commits, notified>>

AllReposProcessed == idx > Len(repos)

Iterating == pc = "process" /\ ~AllReposProcessed

NoFetch == [ok |-> FALSE, items |-> <<>>]
Fetch(items) == [ok |-> TRUE, items |-> items]

(* Mutant: a failed release fetch records an empty release list *)
ReleaseFetchFailsForgets ==
    /\ Iterating
    /\ state' = update_releases(state, repos[idx].name, <<>>)
    /\ fetched' = Append(fetched, [repo |-> repos[idx].name, releases |-> NoFetch, tags |-> NoFetch])
    /\ idx' = idx + 1
    /\ UNCHANGED <<fs, pc, repos, sent, file0, commits, notified>>

(* One iteration of the for loop in which fetch_releases raises: the       *)
(* except clause prints and the loop goes on.                              *)
ReleaseFetchFails ==
    /\ Iterating
    /\ fetched' = Append(fetched, [repo |-> repos[idx].name, releases |-> NoFetch, tags |-> NoFetch])
    /\ idx' = idx + 1
    /\ UNCHANGED <<fs, pc, state, repos, sent, file0, commits, notified>>

(* One iteration in which fetch_releases returns and fetch_tags raises:    *)
(* the release notifications and the release update have happened.         *)
TagFetchFails(releaseLists, outcomes) ==
    /\ Iterating
    /\ \E releases \in { l \in releaseLists : AllHave(l, "id") } :
         LET repo_name == repos[idx].name
             new_releases == detect_new_releases(repo_name, releases, state)
         IN  /\ \E oks \in [1..Len(new_releases) -> outcomes] :
                    sent' = sent \o release_notes(repo_name, new_releases, oks)
             /\ state' = update_releases(state, repo_name, releases)
             /\ fetched' = Append(fetched, [repo |-> repo_name, releases |-> Fetch(releases), tags |-> NoFetch])
    /\ idx' = idx + 1
    /\ UNCHANGED <<fs, pc, repos, file0, commits, notified>>

(* One iteration in which a fetched release lacks "id": detect_new_releases *)
(* raises KeyError, the except clause of the loop prints and the loop goes *)
(* on; nothing of the repository was notified or updated.                  *)
ReleaseRecordRaises(releaseLists) ==
    /\ Iterating
    /\ \E releases \in { l \in releaseLists : ~AllHave(l, "id") } :
         fetched' = Append(fetched, [repo |-> repos[idx].name, releases |-> Fetch(releases), tags |-> NoFetch])
    /\ idx' = idx + 1
    /\ UNCHANGED <<fs, pc, state, repos, sent, file0, commits, notified>>

(* One iteration in which a fetched tag lacks "name": the comprehension    *)
(* over the tags raises KeyError after the release notifications and the   *)
(* release update; no tag is notified and state["tags"] is not written.    *)
TagRecordRaises(releaseLists, tagLists, outcomes) ==
    /\ Iterating
    /\ \E releases \in { l \in releaseLists : AllHave(l, "id") },
          tags \in { l \in tagLists : ~AllHave(l, "name") } :
         LET repo_name == repos[idx].name
             new_releases == detect_new_releases(repo_name, releases, state)
         IN  /\ \E oks \in [1..Len(new_releases) -> outcomes] :
                    sent' = sent \o release_notes(repo_name, new_releases, oks)
             /\ state' = update_releases(state, repo_name, releases)
             /\ fetched' = Append(fetched, [repo |-> repo_name, releases |-> Fetch(releases), tags |-> Fetch(tags)])
    /\ idx' = idx + 1
    /\ UNCHANGED <<fs, pc, repos, file0, commits, notified>>

(* One complete iteration of the for loop: both fetches return *)
RepoIteration(releaseLists, tagLists, outcomes) ==
    /\ Iterating
    /\ \E releases \in { l \in releaseLists : AllHave(l, "id") },
          tags \in { l \in tagLists : AllHave(l, "name") } :
         LET repo_name == repos[idx].name
             new_releases == detect_new_releases(repo_name, releases, state)
             state1 == update_releases(state, repo_name, releases)
             new_tags == tags_to_notify(repo_name, tags, new_releases, state1)
         IN  /\ \E oks \in [1..Len(new_releases) -> outcomes],
                   tagOks \in [1..Len(new_tags) -> outcomes] :
                    sent' = sent \o release_notes(repo_name, new_releases, oks)
                                 \o tag_notes(repo_name, new_tags, tagOks)
             /\ state' = update_tags(state1, repo_name, tags)
             /\ fetched' = Append(fetched, [repo |-> repo_name, releases |-> Fetch(releases), tags |-> Fetch(tags)])
    /\ idx' = idx + 1
    /\ UNCHANGED <<pc, repos, file0, commits, notified>>

(* Mutant: save_state is called inside the loop *)
ProcessRepoAndSave(releaseLists, tagLists, outcomes) ==
    /\ RepoIteration(releaseLists, tagLists, outcomes)
    /\ fs' = [fs EXCEPT ![STATE_FILE] = [exists |-> TRUE, text |-> json_dump(state')]]

(* The loop body never touches the files: save_state is called after the loop *)
ProcessRepo(releaseLists, tagLists, outcomes) ==
    /\ RepoIteration(releaseLists, tagLists, outcomes)
    /\ UNCHANGED fs

(* save_state, first half: open(tmp, "w"), json.dump, close *)
SaveWrite ==
    /\ pc = "process" /\ AllReposProcessed
    /\ fs' = [fs EXCEPT ![tmp] = [exists |-> TRUE, text |-> json_dump(state)]]
    /\ pc' = "replace"
    /\ UNCHANGED <<state, repos, idx, sent, fetched, file0, commits, notified>>

(* save_state, second half: os.replace(tmp, STATE_FILE) *)
SaveReplace ==
    /\ pc = "replace"
    /\ fs' = IF tmp = STATE_FILE THEN fs
             ELSE [fs EXCEPT ![STATE_FILE] = fs[tmp], ![tmp] = NoFile]
    /\ commits' = commits + 1
    /\ pc' = "done"
    /\ UNCHANGED <<state, repos, idx, sent, fetched, file0, notified>>

(* The write of the temporary file stops early (an OSError, or the process *)
(* is killed): open fails and leaves the path alone, or the file is left   *)
(* with the tokens written so far.                                         *)
SaveWriteFail ==
    /\ pc = "process" /\ AllReposProcessed
    /\ \/ UNCHANGED fs
       \/ \E k \in 0..(DumpLen - 1) :
            fs' = [fs EXCEPT ![tmp] = [exists |-> TRUE, text |-> SubSeq(json_dump(state), 1, k)]]
    /\ pc' = "failed"
    /\ UNCHANGED <<state, repos, idx, sent, fetched, file0, commits, notified>>

(* os.replace raises *)
SaveReplaceFail ==
    /\ pc = "replace"
    /\ pc' = "failed"
    /\ UNCHANGED <<fs, state, repos, idx, sent, fetched, file0, commits, notified>>

(* The process is killed between two steps *)
Crash ==
    /\ pc \notin Stopped
    /\ pc' = "crashed"
    /\ UNCHANGED <<fs, state, repos, idx, sent, fetched, file0, commits, notified>>

----------------------------------------------------------------------------
(* Specifications                                                          *)

(* One repository, every release and tag list; listing, fetch and          *)
(* notification failures.                                                  *)
Next ==
    \/ LoadState
    \/ FetchReposFail
    \/ FetchReposOk(Listings)
    \/ NotifyRepos(BOOLEAN)
    \/ ReleaseFetchFails
    \/ TagFetchFails(ReleaseLists, BOOLEAN)
    \/ ProcessRepo(ReleaseLists, TagLists, BOOLEAN)
    \/ SaveWrite
    \/ SaveReplace

Spec == Init /\ [][Next]_vars

(* Three repositories, listing and fetch failures *)
NextOrg ==
    \/ LoadState
    \/ FetchReposFail
    \/ FetchReposOk(OrgListings)
    \/ NotifyRepos({TRUE})
    \/ ReleaseFetchFails
    \/ TagFetchFails(OrgReleaseLists, {TRUE})
    \/ ProcessRepo(OrgReleaseLists, OrgTagLists, {TRUE})
    \/ SaveWrite
    \/ SaveReplace

SpecOrg == Init /\ [][NextOrg]_vars

(* One repository with one release and one tag; every failure, including   *)
(* the failures of save_state and a kill of the process.                   *)
NextSave ==
    \/ LoadState
    \/ FetchReposFail
    \/ FetchReposOk(SaveListings)
    \/ NotifyRepos(BOOLEAN)
    \/ ReleaseFetchFails
    \/ TagFetchFails(SaveReleaseLists, BOOLEAN)
    \/ ProcessRepo(SaveReleaseLists, SaveTagLists, BOOLEAN)
    \/ SaveWrite
    \/ SaveReplace
    \/ SaveWriteFail
    \/ SaveReplaceFail
    \/ Crash

SpecSave == Init /\ [][NextSave]_vars

(* The same steps, started on whatever an earlier run left at STATE_FILE *)
SpecLoad == InitLoad /\ [][NextSave]_vars

(* One pass over two repositories with releases and tags; fetch failures,  *)
(* and notification failures in the complete iterations.                   *)
NextOrder ==
    \/ FirstLoadState
    \/ FetchReposFail
    \/ FetchReposOk(OrderListings)
    \/ NotifyRepos({TRUE})
    \/ ReleaseFetchFails
    \/ TagFetchFails(OrderReleaseLists, {TRUE})
    \/ ProcessRepo(OrderReleaseLists, TagLists, BOOLEAN)
    \/ SaveWrite
    \/ SaveReplace

SpecOrder == InitOrder /\ [][NextOrder]_vars

(* Listings that only grow: a successful fetch returns every item the     *)
(* earlier successful fetches of the same list returned.  With every pass  *)
(* saved, those are the items of the snapshot.                             *)
GrowingListings ==
    { l \in Listings :
        { r.name : r \in Range(state.repos) } \subseteq { r.name : r \in Range(l) } }

GrowingReleaseLists ==
    { l \in ReleaseLists :
        { r.id : r \in Range(Get(state.releases, repos[idx].name, <<>>)) }
            \subseteq { r.id : r \in Range(l) } }

GrowingTagLists ==
    { l \in TagLists :
        { t.name : t \in Range(Get(state.tags, repos[idx].name, <<>>)) }
            \subseteq { t.name : t \in Range(l) } }

(* One repository whose lists only grow, over any number of passes;        *)
(* listing, fetch and notification failures, every save succeeding.        *)
NextGrowing ==
    \/ LoadStateNoting
    \/ FetchReposFail
    \/ FetchReposOk(GrowingListings)
    \/ NotifyRepos(BOOLEAN)
    \/ ReleaseFetchFails
    \/ TagFetchFails(GrowingReleaseLists, BOOLEAN)
    \/ ProcessRepo(GrowingReleaseLists, GrowingTagLists, BOOLEAN)
    \/ SaveWrite
    \/ SaveReplace

SpecGrowing == Init /\ [][NextGrowing]_vars

(* Two repository names in any order, no releases and no tags; listing,    *)
(* fetch and notification failures.                                        *)
NextNames ==
    \/ LoadState
    \/ FetchReposFail
    \/ FetchReposOk(NameListings)
    \/ NotifyRepos(BOOLEAN)
    \/ ReleaseFetchFails
    \/ TagFetchFails(NoReleases, BOOLEAN)
    \/ ProcessRepo(NoReleases, NoTags, BOOLEAN)
    \/ SaveWrite
    \/ SaveReplace

SpecNames == Init /\ [][NextNames]_vars

(* Malformed records in the answers of the API; no other failure *)
NextMal ==
    \/ LoadState
    \/ FetchReposOk(MalListings)
    \/ NotifyRepos({TRUE})
    \/ NotifyReposRaises({TRUE})
    \/ ReleaseRecordRaises(MalReleaseLists)
    \/ TagRecordRaises(MalReleaseLists, MalTagLists, {TRUE})
    \/ ProcessRepo(MalReleaseLists, MalTagLists, {TRUE})
    \/ SaveWrite
    \/ SaveReplace

SpecMal == Init /\ [][NextMal]_vars

----------------------------------------------------------------------------
(* Vocabulary of the properties                                            *)

Persisted == load_state(fs[STATE_FILE])

State0 == load_state(file0)

RepoNames(st) == { r.name : r \in Range(st.repos) }

ListedNames == { r.name : r \in Range(repos) }

SameEntry(m1, m2, k) ==
    /\ (k \in DOMAIN m1) <=> (k \in DOMAIN m2)
    /\ (k \in DOMAIN m1) => m1[k] = m2[k]

BothFetched(f) == f.releases.ok /\ f.tags.ok

NotesOf(kind, repo_name) ==
    { i \in DOMAIN sent : sent[i].kind = kind /\ sent[i].repo = repo_name }

ReleaseNotes(repo_name, id) ==
    { i \in NotesOf("release", repo_name) : sent[i].id = id }

TagNotes(repo_name, name) ==
    { i \in NotesOf("tag", repo_name) : sent[i].name = name }

ReachedSave == pc \in {"replace", "done"}

----------------------------------------------------------------------------
(* C1: partial-failure isolation.  In a completed pass over A, B, C in     *)
(* which a fetch of B (releases or tags) failed and those of A and C       *)
(* succeeded, A and C are notified and updated, B's release and tag        *)
(* collections are as before the pass, nothing is notified for B's         *)
(* releases or tags, and the snapshot is persisted.                        *)
C1_Case ==
    /\ pc = "done"
    /\ Len(fetched) = 3
    /\ fetched[1].repo = "A" /\ fetched[2].repo = "B" /\ fetched[3].repo = "C"
    /\ BothFetched(fetched[1]) /\ BothFetched(fetched[3])
    /\ ~BothFetched(fetched[2])

C1_Updated(f) ==
    /\ f.repo \in DOMAIN state.releases /\ f.repo \in DOMAIN state.tags
    /\ state.releases[f.repo] = release_summaries(f.releases.items)
    /\ state.tags[f.repo] = tag_summaries(f.tags.items)
    /\ \A r \in Range(f.releases.items) :
         r.id \notin { q.id : q \in Range(Get(State0.releases, f.repo, <<>>)) }
            => ReleaseNotes(f.repo, r.id) # {}

C1_PartialFailureIsolation ==
    C1_Case =>
        /\ C1_Updated(fetched[1]) /\ C1_Updated(fetched[3])
        /\ SameEntry(state.releases, State0.releases, "B")
        /\ SameEntry(state.tags, State0.tags, "B")
        /\ NotesOf("release", "B") = {} /\ NotesOf("tag", "B") = {}
        /\ Persisted = state

(* The part of C1 the code keeps: a repository whose release fetch failed  *)
(* is skipped entirely.                                                    *)
C1_ReleaseFailureSkips ==
    \A i \in DOMAIN fetched :
        ~fetched[i].releases.ok =>
            /\ SameEntry(state.releases, State0.releases, fetched[i].repo)
            /\ SameEntry(state.tags, State0.tags, fetched[i].repo)
            /\ NotesOf("release", fetched[i].repo) = {}
            /\ NotesOf("tag", fetched[i].repo) = {}

----------------------------------------------------------------------------
(* C2: when the repository listing fails the pass aborts: nothing is       *)
(* notified, no repository is processed, the in-memory snapshot is the     *)
(* loaded one and the persisted snapshot is the file the pass started from. *)
C2_ListingFailureAborts ==
    pc = "aborted" =>
        /\ sent = <<>>
        /\ fetched = <<>>
        /\ repos = <<>>
        /\ state = State0
        /\ commits = 0
        /\ fs[STATE_FILE] = file0

C2_Witness ==
    /\ pc = "aborted"
    /\ file0.exists
    /\ State0.repos # <<>>
    /\ DOMAIN State0.releases # {}

----------------------------------------------------------------------------
(* C3: tag/release de-duplication.  In every iteration, a fetched release  *)
(* whose tag_name equals the name of a fetched tag gets no tag             *)
(* notification, and exactly one release notification when the release is  *)
(* new (none when it is already known), wherever the two sit in their      *)
(* lists.  From an empty snapshot, one repository with release {1, "v1"}   *)
(* and tag "v1" gives one repository, one release and no tag notification. *)
C3_Pairs(f) ==
    { <<r, t>> \in Range(f.releases.items) \X Range(f.tags.items) : r.tag_name = t.name }

C3_KnownIds(repo_name) == { q.id : q \in Range(Get(State0.releases, repo_name, <<>>)) }

C3_Scenario ==
    /\ pc = "done"
    /\ State0 = DefaultState
    /\ Len(repos) = 1
    /\ Len(fetched) = 1
    /\ BothFetched(fetched[1])
    /\ release_summaries(fetched[1].releases.items) = <<[id |-> 1, tag_name |-> "v1"]>>
    /\ [k \in DOMAIN fetched[1].tags.items |-> fetched[1].tags.items[k].name] = <<"v1">>

C3_TagReleaseDedup ==
    /\ \A i \in DOMAIN fetched :
         BothFetched(fetched[i]) =>
            \A p \in C3_Pairs(fetched[i]) :
                /\ TagNotes(fetched[i].repo, p[2].name) = {}
                /\ Cardinality(ReleaseNotes(fetched[i].repo, p[1].id))
                      = IF p[1].id \in C3_KnownIds(fetched[i].repo) THEN 0 ELSE 1
    /\ C3_Scenario =>
         /\ Len(sent) = 2
         /\ sent[1].kind = "repo" /\ sent[1].name = repos[1].name
         /\ sent[2].kind = "release" /\ sent[2].name = "v1" /\ sent[2].id = 1

(* A new release in second position whose tag is fetched in first position, *)
(* next to an uncovered tag that is notified.                              *)
C3_Witness ==
    /\ pc = "done"
    /\ Len(fetched) = 1
    /\ BothFetched(fetched[1])
    /\ Len(fetched[1].releases.items) = 2
    /\ Len(fetched[1].tags.items) = 2
    /\ fetched[1].releases.items[2].tag_name = "v1"
    /\ fetched[1].tags.items[1].name = "v1"
    /\ ReleaseNotes(fetched[1].repo, fetched[1].releases.items[2].id) # {}
    /\ TagNotes(fetched[1].repo, "v2") # {}

----------------------------------------------------------------------------
----------------------------------------------------------------------------
(* C5: a notification delivery failure never changes the snapshot.  After  *)
(* the repository step the in-memory snapshot is determined by the loaded  *)
(* snapshot, the listing and the fetched lists alone; the notifications    *)
(* attempted are the ones due whatever the outcome of the earlier ones;    *)
(* and every item notified in a completed pass, delivered or not, is known *)
(* to the persisted snapshot, so the next pass does not detect it as new.  *)
C5_Releases(n) ==
    LET i == CHOOSE j \in DOMAIN fetched : fetched[j].repo = n /\ fetched[j].releases.ok
    IN  [k \in DOMAIN fetched[i].releases.items |->
            [id |-> fetched[i].releases.items[k].id,
             tag_name |-> fetched[i].releases.items[k].tag_name]]

C5_Tags(n) ==
    LET i == CHOOSE j \in DOMAIN fetched : fetched[j].repo = n /\ fetched[j].tags.ok
    IN  [k \in DOMAIN fetched[i].tags.items |->
            [name |-> fetched[i].tags.items[k].name,
             commit |-> fetched[i].tags.items[k].commit.sha]]

C5_ExpectedState ==
    LET relDone == { fetched[j].repo : j \in { k \in DOMAIN fetched : fetched[k].releases.ok } }
        tagDone == { fetched[j].repo : j \in { k \in DOMAIN fetched : fetched[k].tags.ok } }
    IN  [repos |-> [i \in DOMAIN repos |-> [name |-> repos[i].name, id |-> repos[i].id]],
         releases |-> [n \in (DOMAIN State0.releases) \cup relDone |->
                         IF n \in relDone THEN C5_Releases(n) ELSE State0.releases[n]],
         tags |-> [n \in (DOMAIN State0.tags) \cup tagDone |->
                         IF n \in tagDone THEN C5_Tags(n) ELSE State0.tags[n]]]

C5_Item(kind, repo_name, id, name) == <<kind, repo_name, id, name>>

C5_RepoItems ==
    LET new == SelectSeq(repos, LAMBDA r : r.name \notin RepoNames(State0))
    IN  [i \in DOMAIN new |-> C5_Item("repo", new[i].name, new[i].id, new[i].name)]

C5_ReleaseItems(f) ==
    LET known == { q.id : q \in Range(Get(State0.releases, f.repo, <<>>)) }
        new == SelectSeq(f.releases.items, LAMBDA r : r.id \notin known)
    IN  [i \in DOMAIN new |-> C5_Item("release", f.repo, new[i].id, new[i].tag_name)]

C5_TagItems(f) ==
    LET known == { q.name : q \in Range(Get(State0.tags, f.repo, <<>>)) }
        covered == { q.tag_name : q \in Range(f.releases.items) } \ {""}
        new == SelectSeq(f.tags.items, LAMBDA t : t.name \notin known /\ t.name \notin covered)
    IN  [i \in DOMAIN new |-> C5_Item("tag", f.repo, 0, new[i].name)]

RECURSIVE C5_FetchItems(_)
C5_FetchItems(k) ==
    IF k = 0 THEN <<>>
    ELSE C5_FetchItems(k - 1)
            \o (IF fetched[k].releases.ok THEN C5_ReleaseItems(fetched[k]) ELSE <<>>)
            \o (IF fetched[k].tags.ok THEN C5_TagItems(fetched[k]) ELSE <<>>)

C5_Attempted ==
    [i \in DOMAIN sent |-> C5_Item(sent[i].kind, sent[i].repo, sent[i].id, sent[i].name)]

C5_Known(note, st) ==
    CASE note.kind = "repo" -> note.name \in RepoNames(st)
      [] note.kind = "release" ->
            note.id \in { q.id : q \in Range(Get(st.releases, note.repo, <<>>)) }
      [] OTHER ->
            note.name \in { q.name : q \in Range(Get(st.tags, note.repo, <<>>)) }

C5_NotifyFailureIndependent ==
    /\ pc \in {"process", "replace", "done"} =>
          /\ state = C5_ExpectedState
          /\ C5_Attempted = C5_RepoItems \o C5_FetchItems(Len(fetched))
    /\ pc = "done" =>
          /\ Persisted = state
          /\ \A i \in DOMAIN sent : C5_Known(sent[i], Persisted)

(* A completed pass in which the repository notification and a release     *)
(* notification failed and a tag notification was attempted after them.    *)
C5_Witness ==
    /\ pc = "done"
    /\ Len(sent) >= 3
    /\ sent[1].kind = "repo" /\ ~sent[1].ok
    /\ sent[2].kind = "release" /\ ~sent[2].ok
    /\ sent[Len(sent)].kind = "tag"

----------------------------------------------------------------------------
(* C6: repository records are never removed.  As claimed: a name in the    *)
(* persisted repository collection is still in it after every later step.  *)
C6_NeverRemoved ==
    [][RepoNames(Persisted) \subseteq RepoNames(Persisted')]_vars

(* C6 as amended: the persisted repository collection changes only by      *)
(* being replaced with the names of the current listing, so a recorded     *)
(* name stays through every pass whose listing fails or still returns it   *)
(* and is dropped by a pass that saves a listing without it; the release   *)
(* and tag entries of a repository are never removed.                      *)
C6_ReplacedByListing ==
    [][/\ \/ RepoNames(Persisted') = RepoNames(Persisted)
          \/ RepoNames(Persisted') = ListedNames
       /\ \A n \in RepoNames(Persisted) :
             n \in ListedNames' \/ pc' = "aborted" => n \in RepoNames(Persisted')
       /\ DOMAIN Persisted.releases \subseteq DOMAIN Persisted'.releases
       /\ DOMAIN Persisted.tags \subseteq DOMAIN Persisted'.tags]_vars

(* A pass that saved a listing without B, which the snapshot held before:  *)
(* B left the repository collection, A stayed, B's release entry stayed.   *)
C6_Witness ==
    /\ pc = "done"
    /\ {"A", "B"} \subseteq RepoNames(State0)
    /\ "A" \in RepoNames(Persisted)
    /\ "B" \notin RepoNames(Persisted)
    /\ "B" \in DOMAIN Persisted.releases

----------------------------------------------------------------------------
(* C7: tag filter input.  In an iteration whose fetches both succeed, the  *)
(* suppressed names are the tag_name values of the releases the snapshot   *)
(* held before the pass together with those of the newly detected          *)
(* releases: a new tag with a name in that union is not notified, a new    *)
(* tag with a name outside it is notified.                                 *)
C7_Union(f) ==
    LET before == Get(State0.releases, f.repo, <<>>)
        known == { q.id : q \in Range(before) }
    IN  { q.tag_name : q \in Range(before) }
          \cup { r.tag_name : r \in { q \in Range(f.releases.items) : q.id \notin known } }

C7_NewTagNames(f) ==
    { t.name : t \in Range(f.tags.items) }
        \ { q.name : q \in Range(Get(State0.tags, f.repo, <<>>)) }

C7_TagFilterInput ==
    \A i \in DOMAIN fetched :
        BothFetched(fetched[i]) =>
            \A n \in C7_NewTagNames(fetched[i]) :
                (n \in C7_Union(fetched[i])) <=> (TagNotes(fetched[i].repo, n) = {})

----------------------------------------------------------------------------
(* C8: tag first, release later.  A tag recorded for its repository in the *)
(* snapshot the pass loaded is never notified in that pass; when a release *)
(* whose tag_name is such a recorded tag first appears, the release is     *)
(* notified and the tag is not.                                            *)
C8_RecordedTags(repo_name) == { q.name : q \in Range(Get(State0.tags, repo_name, <<>>)) }

C8_TagFirstReleaseLater ==
    /\ \A i \in DOMAIN sent :
          sent[i].kind = "tag" => sent[i].name \notin C8_RecordedTags(sent[i].repo)
    /\ \A i \in DOMAIN fetched :
          fetched[i].releases.ok =>
             \A r \in Range(fetched[i].releases.items) :
                /\ r.tag_name \in C8_RecordedTags(fetched[i].repo)
                /\ r.id \notin { q.id : q \in Range(Get(State0.releases, fetched[i].repo, <<>>)) }
                => /\ ReleaseNotes(fetched[i].repo, r.id) # {}
                   /\ TagNotes(fetched[i].repo, r.tag_name) = {}

(* Pass 2 of the scenario: the snapshot holds tag v1 and no release, the   *)
(* fetch returns a release for v1 and the tag again.                       *)
C8_Witness ==
    /\ pc = "done"
    /\ Len(fetched) = 1
    /\ BothFetched(fetched[1])
    /\ "v1" \in C8_RecordedTags(fetched[1].repo)
    /\ Get(State0.releases, fetched[1].repo, <<>>) = <<>>
    /\ Len(fetched[1].releases.items) = 1
    /\ fetched[1].releases.items[1].tag_name = "v1"
    /\ "v1" \in { t.name : t \in Range(fetched[1].tags.items) }
    /\ Len(sent) = 1
    /\ sent[1].kind = "release"

----------------------------------------------------------------------------
(* C9: crash-safe persist.  At every step the persisted file is either the *)
(* complete file the pass started from or, once the replace has happened,  *)
(* the complete text of the new snapshot; a failed or killed save leaves   *)
(* the file the pass started from.                                         *)
C9_OldOrNew ==
    /\ \/ fs[STATE_FILE] = file0
       \/ /\ pc = "done"
          /\ fs[STATE_FILE] = [exists |-> TRUE, text |-> json_dump(state)]
    /\ fs[STATE_FILE].exists => json_parses(fs[STATE_FILE].text)
    /\ pc \in {"failed", "crashed"} => fs[STATE_FILE] = file0

(* A save that failed half-way over an existing snapshot: the temporary    *)
(* file is torn, the persisted snapshot is the previous one.               *)
C9_Witness ==
    /\ pc = "failed"
    /\ file0.exists
    /\ state # State0
    /\ fs[tmp].exists
    /\ fs[tmp].text # <<>>
    /\ ~json_parses(fs[tmp].text)

----------------------------------------------------------------------------
(* C10: single commit per pass.  The persisted file is the one the pass    *)
(* loaded until the replace, which happens once, after every repository of *)
(* the listing has been processed or skipped, and installs the in-memory   *)
(* snapshot; a pass that stops earlier leaves that file for the next pass, *)
(* which loads it.                                                         *)
C10_SingleCommit ==
    /\ pc # "done" => commits = 0 /\ fs[STATE_FILE] = file0
    /\ pc = "done" =>
          /\ commits = 1
          /\ Len(fetched) = Len(repos)
          /\ Persisted = state
    /\ pc = "replace" => Len(fetched) = Len(repos)
    /\ pc = "fetch_repos" => state = Persisted

(* A pass after a crash: the baseline is the snapshot persisted before it. *)
C10_Witness ==
    /\ pc = "done"
    /\ commits = 1
    /\ Len(repos) = 1
    /\ file0.exists
    /\ State0 # state

----------------------------------------------------------------------------
(* C11: malformed records are tolerated.  A fetched repository, release or *)
(* tag record that lacks name, id, tag_name or commit never makes the pass *)
(* fail or skip work: main is never ended by an exception, and every       *)
(* fetched release list and tag list is recorded in the snapshot, one      *)
(* entry per fetched record.                                               *)
C11_MalformedTolerated ==
    /\ pc # "failed"
    /\ \A i \in DOMAIN fetched :
         LET f == fetched[i]
         IN  /\ f.releases.ok =>
                    Len(Get(state.releases, f.repo, <<>>)) = Len(f.releases.items)
             /\ f.tags.ok =>
                    Len(Get(state.tags, f.repo, <<>>)) = Len(f.tags.items)

(* The part of C11 the code keeps: a release without tag_name and a tag    *)
(* without commit are recorded with the placeholder "", and the release is *)
(* notified under the name "unknown".                                      *)
C11_Placeholders ==
    \A i \in DOMAIN fetched :
        LET f == fetched[i]
        IN  /\ (f.releases.ok /\ AllHave(f.releases.items, "id")) =>
                   /\ Len(state.releases[f.repo]) = Len(f.releases.items)
                   /\ \A k \in DOMAIN f.releases.items :
                        "tag_name" \notin DOMAIN f.releases.items[k] =>
                            /\ state.releases[f.repo][k].tag_name = ""
                            /\ \A n \in ReleaseNotes(f.repo, f.releases.items[k].id) :
                                   sent[n].name = "unknown"
            /\ (f.tags.ok /\ AllHave(f.tags.items, "name")) =>
                   /\ Len(state.tags[f.repo]) = Len(f.tags.items)
                   /\ \A k \in DOMAIN f.tags.items :
                        "commit" \notin DOMAIN f.tags.items[k] =>
                            state.tags[f.repo][k].commit = ""

----------------------------------------------------------------------------
(* C12: detection idempotence.  detect_new_repos(R, S) is empty when the   *)
(* repository collection of S was built from R by the update step of the   *)
(* pass; in general it is the subsequence of R, in R's order, of the       *)
(* records whose name is not among the names known to the snapshot, ids    *)
(* playing no part; the repository notifications of the pass are the ones  *)
(* of that subsequence.                                                    *)
C12_NewAt == { i \in DOMAIN repos : repos[i].name \notin RepoNames(State0) }

C12_Nth(k) == CHOOSE i \in C12_NewAt : Cardinality({ j \in C12_NewAt : j <= i }) = k

C12_DetectionIdempotent ==
    pc \in {"process", "replace", "done"} =>
        /\ detect_new_repos(repos, state) = <<>>
        /\ detect_new_repos(repos, update_repos(State0, repos)) = <<>>
        /\ detect_new_repos(repos, State0) = [k \in 1..Cardinality(C12_NewAt) |-> repos[C12_Nth(k)]]
        /\ Len(sent) = Cardinality(C12_NewAt)
        /\ \A k \in DOMAIN sent :
             /\ sent[k].kind = "repo"
             /\ sent[k].name = repos[C12_Nth(k)].name
             /\ sent[k].id = repos[C12_Nth(k)].id

(* A repository known under another id is listed after a new one: only the *)
(* new one is detected.                                                    *)
C12_Witness ==
    /\ pc = "done"
    /\ Len(repos) = 2
    /\ Len(sent) = 1
    /\ repos[2].name \in RepoNames(State0)
    /\ repos[2].id \notin { r.id : r \in Range(State0.repos) }
    /\ sent[1].name = repos[1].name

----------------------------------------------------------------------------
----------------------------------------------------------------------------
(* C14: full replace of the per-repository collections.  Once the release  *)
(* fetch and the tag fetch of a repository have both succeeded, its        *)
(* release collection is the {id, tag_name} projection of the fetched      *)
(* releases and its tag collection the {name, commit sha} projection of    *)
(* the fetched tags, record by record in fetch order (the empty list       *)
(* included); a record of the loaded snapshot that is absent from the      *)
(* fetched list is gone, and the saved snapshot holds the same.            *)
C14_Ids(rs) == { r.id : r \in Range(rs) }

C14_Names(ts) == { t.name : t \in Range(ts) }

C14_FullReplace ==
    \A i \in DOMAIN fetched :
        LET f == fetched[i]
            n == f.repo
        IN  BothFetched(f) =>
              /\ n \in DOMAIN state.releases /\ n \in DOMAIN state.tags
              /\ Len(state.releases[n]) = Len(f.releases.items)
              /\ \A k \in DOMAIN f.releases.items :
                   state.releases[n][k] =
                       [id |-> f.releases.items[k].id, tag_name |-> f.releases.items[k].tag_name]
              /\ Len(state.tags[n]) = Len(f.tags.items)
              /\ \A k \in DOMAIN f.tags.items :
                   state.tags[n][k] =
                       [name |-> f.tags.items[k].name, commit |-> f.tags.items[k].commit.sha]
              /\ (C14_Ids(Get(State0.releases, n, <<>>)) \ C14_Ids(f.releases.items))
                     \cap C14_Ids(state.releases[n]) = {}
              /\ (C14_Names(Get(State0.tags, n, <<>>)) \ C14_Names(f.tags.items))
                     \cap C14_Names(state.tags[n]) = {}
              /\ pc = "done" =>
                   /\ Get(Persisted.releases, n, <<>>) = state.releases[n]
                   /\ Get(Persisted.tags, n, <<>>) = state.tags[n]
                   /\ n \in DOMAIN Persisted.releases /\ n \in DOMAIN Persisted.tags

(* Two recorded releases and two recorded tags; the fetch returns no       *)
(* release and one of the tags, and nothing is notified.                   *)
C14_Witness ==
    /\ pc = "done"
    /\ Len(fetched) = 1 /\ BothFetched(fetched[1])
    /\ Len(Get(State0.releases, "x", <<>>)) = 2
    /\ Len(Get(State0.tags, "x", <<>>)) = 2
    /\ fetched[1].releases.items = <<>>
    /\ Len(fetched[1].tags.items) = 1
    /\ sent = <<>>
    /\ state.releases["x"] = <<>>
    /\ Len(state.tags["x"]) = 1

----------------------------------------------------------------------------
(* C15: notification order within a pass.  The repository notifications    *)
(* come first, in listing order; then the repositories follow in listing   *)
(* order, each with its release notifications in release fetch order       *)
(* before its tag notifications in tag fetch order; no item is sent twice. *)
C15_RepoPos(n) == CHOOSE k \in DOMAIN repos : repos[k].name = n

C15_ReleasePos(note) ==
    LET items == fetched[C15_RepoPos(note.repo)].releases.items
    IN  CHOOSE k \in DOMAIN items : items[k].id = note.id

C15_TagPos(note) ==
    LET items == fetched[C15_RepoPos(note.repo)].tags.items
    IN  CHOOSE k \in DOMAIN items : items[k].name = note.name

C15_Before(m, n) ==
    IF m.kind = "repo"
    THEN n.kind = "repo" => C15_RepoPos(m.repo) < C15_RepoPos(n.repo)
    ELSE /\ n.kind # "repo"
         /\ C15_RepoPos(m.repo) <= C15_RepoPos(n.repo)
         /\ m.repo = n.repo =>
               CASE m.kind = "release" /\ n.kind = "release" -> C15_ReleasePos(m) < C15_ReleasePos(n)
                 [] m.kind = "release" /\ n.kind = "tag" -> TRUE
                 [] m.kind = "tag" /\ n.kind = "release" -> FALSE
                 [] m.kind = "tag" /\ n.kind = "tag" -> C15_TagPos(m) < C15_TagPos(n)

C15_NotificationOrder ==
    /\ \A i \in DOMAIN sent :
         /\ sent[i].repo \in ListedNames
         /\ sent[i].kind # "repo" =>
               /\ C15_RepoPos(sent[i].repo) \in DOMAIN fetched
               /\ fetched[C15_RepoPos(sent[i].repo)].repo = sent[i].repo
         /\ sent[i].kind = "release" =>
               sent[i].id \in { r.id : r \in Range(fetched[C15_RepoPos(sent[i].repo)].releases.items) }
         /\ sent[i].kind = "tag" =>
               sent[i].name \in { t.name : t \in Range(fetched[C15_RepoPos(sent[i].repo)].tags.items) }
    /\ \A i \in DOMAIN sent : \A j \in DOMAIN sent :
         i < j => C15_Before(sent[i], sent[j])

(* Two new repositories, each with two new releases and one tag that no    *)
(* release covers.                                                         *)
C15_Witness ==
    /\ pc = "done"
    /\ Len(repos) = 2
    /\ Len(sent) = 8
    /\ sent[2].kind = "repo"
    /\ sent[3].kind = "release" /\ sent[4].kind = "release" /\ sent[5].kind = "tag"
    /\ sent[6].kind = "release" /\ sent[8].kind = "tag"
    /\ sent[5].repo = repos[1].name /\ sent[6].repo = repos[2].name

----------------------------------------------------------------------------
(* C16: pass-level idempotence.  A pass whose fetches all succeed and      *)
(* return the lists the loaded snapshot was built from (the snapshot a     *)
(* fully successful pass over the same lists has saved) sends no           *)
(* notification, leaves the snapshot as loaded and saves a file equal to   *)
(* the one it loaded.                                                      *)
C16_SameInputs ==
    /\ file0.exists
    /\ State0.repos = repo_summaries(repos)
    /\ Len(fetched) = Len(repos)
    /\ \A i \in DOMAIN fetched :
         /\ BothFetched(fetched[i])
         /\ fetched[i].repo \in DOMAIN State0.releases
         /\ fetched[i].repo \in DOMAIN State0.tags
         /\ State0.releases[fetched[i].repo] = release_summaries(fetched[i].releases.items)
         /\ State0.tags[fetched[i].repo] = tag_summaries(fetched[i].tags.items)

C16_PassIdempotent ==
    (pc \in {"process", "replace", "done"} /\ C16_SameInputs) =>
        /\ sent = <<>>
        /\ state = State0
        /\ pc = "done" =>
              /\ fs[STATE_FILE] = file0
              /\ Persisted = State0

(* The repeated lists hold two releases and two tags, one of them covered  *)
(* by a release and one not.                                               *)
C16_Witness ==
    /\ pc = "done"
    /\ C16_SameInputs
    /\ Len(repos) = 1
    /\ Len(fetched[1].releases.items) = 2
    /\ Len(fetched[1].tags.items) = 2
    /\ \E r \in Range(fetched[1].releases.items) : r.tag_name = "v1"
    /\ commits = 1

----------------------------------------------------------------------------
(* C17: at-most-once notification.  Over the passes of a run in which      *)
(* every save succeeds and the fetched lists have no duplicate key and     *)
(* only grow, no repository name, release id of a repository or tag name   *)
(* of a repository is sent twice: not twice in one pass, and not in a pass *)
(* after one that already sent it, whatever listing, fetch and             *)
(* notification failures happened.                                         *)
C17_AtMostOnce ==
    \A i \in DOMAIN sent :
        /\ NoteKey(sent[i]) \notin notified
        /\ \A j \in DOMAIN sent : j # i => NoteKey(sent[j]) # NoteKey(sent[i])

(* A pass notifies release 2 after earlier passes notified the repository, *)
(* release 1 and tag "v2", one of them without delivery.                   *)
C17_Witness ==
    /\ pc = "done"
    /\ { <<"repo", "x", 0, "">>, <<"release", "x", 1, "">>, <<"tag", "x", 0, "v2">> } \subseteq notified
    /\ \E i \in DOMAIN sent : NoteKey(sent[i]) = <<"release", "x", 2, "">> /\ ~sent[i].ok
    /\ Len(Get(State0.releases, "x", <<>>)) = 1

----------------------------------------------------------------------------
(* C18: frame of a pass.  The release and tag collections of a repository  *)
(* that is absent from the listing of the pass, or whose release fetch     *)
(* failed in the pass, are at every step the ones of the loaded snapshot,  *)
(* never deleted; and so they are in the saved snapshot.  Only the         *)
(* repository-identity collection and the entries of the repositories      *)
(* whose release fetch succeeded can differ.                               *)
C18_ReleasesFetched == { fetched[i].repo : i \in { k \in DOMAIN fetched : fetched[k].releases.ok } }

C18_Names(st) == (DOMAIN st.releases) \cup (DOMAIN st.tags)

C18_Frame ==
    /\ \A n \in (C18_Names(State0) \cup C18_Names(state) \cup ListedNames) \ C18_ReleasesFetched :
         /\ SameEntry(state.releases, State0.releases, n)
         /\ SameEntry(state.tags, State0.tags, n)
    /\ pc = "done" =>
         \A n \in (C18_Names(State0) \cup C18_Names(Persisted) \cup ListedNames) \ C18_ReleasesFetched :
             /\ SameEntry(Persisted.releases, State0.releases, n)
             /\ SameEntry(Persisted.tags, State0.tags, n)

(* The snapshot knows "a" with a release and a tag; the pass lists "b"     *)
(* alone and records it.                                                   *)
C18_Witness ==
    /\ pc = "done"
    /\ ListedNames = {"b"}
    /\ BothFetched(fetched[1])
    /\ "a" \in DOMAIN State0.releases /\ State0.releases["a"] # <<>>
    /\ "a" \in DOMAIN State0.tags /\ State0.tags["a"] # <<>>
    /\ Persisted.releases["a"] = State0.releases["a"]
    /\ Persisted.tags["a"] = State0.tags["a"]
    /\ Persisted.repos # State0.repos
    /\ "b" \in DOMAIN Persisted.releases

====
